---- MODULE Spec2Model ----
(***************************************************************************)
(* Model of dev_tools/generate_repo_map.py: the signature extractors for   *)
(* Python, JavaScript/TypeScript and shell files, the dispatcher           *)
(* extract_signatures and the per-file loop of generate_project_map.       *)
(*                                                                         *)
(* Text is a sequence of lexemes.  A lexeme is one whitespace character,   *)
(* one punctuation character, or one maximal run of word characters (what  *)
(* the regular expression \w+ matches when it is followed by a non-word    *)
(* character).  A line read by readlines() ends with the lexeme "\n".      *)
(* A signature (the f-string indent + text the code appends) is the        *)
(* concatenation of the two lexeme sequences.                              *)
(***************************************************************************)
EXTENDS Naturals, Sequences, FiniteSets, TLC

VARIABLES
    caller,      \* "api": extract_signatures called directly; "map": from generate_project_map
    files,       \* the files on disk: [name, content, err]; err = "" when open() succeeds
    k,           \* position (1-based) of the file being processed
    extension,   \* the extension argument of extract_signatures
    pc,          \* control point
    lines,       \* the extractor's local `lines`
    i,           \* the extractor's line cursor (0-based, as in the code)
    signatures,  \* the extractor's local `signatures`: entries [text, src]
    ran,         \* the extractors entered during the current call
    opened,      \* positions of the files open() was called on
    out          \* the document lines generate_project_map has appended

vars == <<caller, files, k, extension, pc, lines, i, signatures, ran, opened, out>>

(***************************************************************************)
(* Lexemes and the regular-expression fragments the patterns are made of.  *)
(* A position is an index into the line; 0 stands for "no match".          *)
(***************************************************************************)
Whitespace == {" ", "\t", "\n"}
Punctuation == {"(", ")", "{", "}", ":", ";", ",", ".", "@", "=", ">", "#", "/", "-"}

IsSpace(t) == t \in Whitespace
IsWord(t) == t \notin Whitespace /\ t \notin Punctuation

\* the element of a singleton.  The({F(q) : q \in {p}}) is F(p) with p
\* evaluated once: the matcher threads each position through many fragments
The(S) == CHOOSE r \in S : TRUE

\* the literal w
Lit(s, p, w) ==
    The({IF q # 0 /\ q <= Len(s) /\ s[q] = w THEN q + 1 ELSE 0 : q \in {p}})

\* \w+
WordAt(s, p) ==
    The({IF q # 0 /\ q <= Len(s) /\ IsWord(s[q]) THEN q + 1 ELSE 0 : q \in {p}})

\* \s*
RECURSIVE SpacesFrom(_, _)
SpacesFrom(s, p) ==
    IF p = 0 THEN 0
    ELSE IF p <= Len(s) /\ IsSpace(s[p]) THEN SpacesFrom(s, p + 1) ELSE p
SkipSpaces(s, p) == The({SpacesFrom(s, q) : q \in {p}})

\* \s+
Spaces1(s, p) ==
    The({IF q # 0 /\ q <= Len(s) /\ IsSpace(s[q]) THEN SpacesFrom(s, q + 1) ELSE 0 :
         q \in {p}})

\* [^c]*
RECURSIVE NotFrom(_, _, _)
NotFrom(s, p, c) ==
    IF p = 0 THEN 0
    ELSE IF p <= Len(s) /\ s[p] # c THEN NotFrom(s, p + 1, c) ELSE p
SkipNot(s, p, c) == The({NotFrom(s, q, c) : q \in {p}})

\* w\s+
Kw(s, p, w) == Spaces1(s, Lit(s, p, w))

\* (?:w\s+)? followed by something that cannot start with w
OptKw(s, p, w) ==
    The({The({IF r # 0 THEN r ELSE q : r \in {Kw(s, q, w)}}) : q \in {p}})

\* the position first when it is a match, the position second otherwise
OrElse(first, second) == The({IF r # 0 THEN r ELSE second : r \in {first}})

\* \([^)]*\)
Parens(s, p) == Lit(s, SkipNot(s, Lit(s, p, "("), ")"), ")")

\* str.strip(), str.rstrip(c)
RECURSIVE LStrip(_)
LStrip(s) == IF s # <<>> /\ IsSpace(Head(s)) THEN LStrip(Tail(s)) ELSE s
RECURSIVE RStrip(_)
RStrip(s) ==
    IF s # <<>> /\ IsSpace(s[Len(s)]) THEN RStrip(SubSeq(s, 1, Len(s) - 1)) ELSE s
Strip(s) == LStrip(RStrip(s))
RECURSIVE RStripChar(_, _)
RStripChar(s, c) ==
    IF s # <<>> /\ s[Len(s)] = c THEN RStripChar(SubSeq(s, 1, Len(s) - 1), c) ELSE s

\* the leading-whitespace prefix of a text
LeadingWs(s) == SubSeq(s, 1, SpacesFrom(s, 1) - 1)

\* str.lower() of one lexeme
LowerMap ==
    ("If" :> "if") @@ ("IF" :> "if") @@ ("Return" :> "return") @@
    (".PY" :> ".py") @@ (".TSX" :> ".tsx") @@ (".Sh" :> ".sh") @@ (".MD" :> ".md")
Lower(t) == IF t \in DOMAIN LowerMap THEN LowerMap[t] ELSE t

(***************************************************************************)
(* A match object: ok, group(1) and group(2).  Every pattern starts with   *)
(* a group of leading whitespace and its second group starts with a        *)
(* non-space character, so group(1) is the whole run of leading            *)
(* whitespace.                                                             *)
(***************************************************************************)
NoMatch == [ok |-> FALSE, g1 |-> <<>>, g2 |-> <<>>]
Match(s, e) ==
    The({IF q = 0 THEN NoMatch
         ELSE [ok |-> TRUE,
               g1 |-> SubSeq(s, 1, SpacesFrom(s, 1) - 1),
               g2 |-> SubSeq(s, SpacesFrom(s, 1), q - 1)] : q \in {e}})

\* the match that ends at e when the literal c follows it
MatchBefore(s, e, c) ==
    The({IF Lit(s, q, c) # 0 THEN Match(s, q) ELSE NoMatch : q \in {e}})

\* PY_CLASS_PATTERN  ^(\s*)(class\s+\w+[^:]*):
PY_CLASS_PATTERN(s) ==
    MatchBefore(s, SkipNot(s, WordAt(s, Kw(s, SkipSpaces(s, 1), "class")), ":"), ":")

\* PY_FUNC_PATTERN  ^(\s*)((?:async\s+)?def\s+\w+\s*\([^)]*\)[^:]*):
PY_FUNC_PATTERN(s) ==
    LET name == WordAt(s, Kw(s, OptKw(s, SkipSpaces(s, 1), "async"), "def"))
    IN  MatchBefore(s, SkipNot(s, Parens(s, SkipSpaces(s, name)), ":"), ":")

\* (?:\.\w+)*
RECURSIVE DottedFrom(_, _)
DottedFrom(s, p) ==
    IF p = 0 THEN 0
    ELSE IF WordAt(s, Lit(s, p, ".")) # 0 THEN DottedFrom(s, p + 2) ELSE p
DottedTail(s, p) == The({DottedFrom(s, q) : q \in {p}})

\* PY_DECORATOR_PATTERN  ^(\s*)(@\w+(?:\.\w+)*(?:\([^)]*\))?)
PY_DECORATOR_PATTERN(s) ==
    LET name == WordAt(s, Lit(s, SkipSpaces(s, 1), "@"))
    IN  Match(s, The({OrElse(Parens(s, path), path) : path \in {DottedTail(s, name)}}))

\* JS_CLASS_PATTERN  ^(\s*)((?:export\s+)?(?:default\s+)?class\s+\w+[^{]*)
JS_CLASS_PATTERN(s) ==
    LET q == OptKw(s, OptKw(s, SkipSpaces(s, 1), "export"), "default")
    IN  Match(s, SkipNot(s, WordAt(s, Kw(s, q, "class")), "{"))

\* JS_FUNC_PATTERN
\* ^(\s*)((?:export\s+)?(?:default\s+)?(?:async\s+)?function\s+\w+\s*\([^)]*\)[^{]*)
JS_FUNC_PATTERN(s) ==
    LET q == OptKw(s, OptKw(s, OptKw(s, SkipSpaces(s, 1), "export"), "default"), "async")
        name == WordAt(s, Kw(s, q, "function"))
    IN  Match(s, SkipNot(s, Parens(s, SkipSpaces(s, name)), "{"))

\* (?:export\s+)?(?:const|let|var)\s+\w+\s*=\s*   (the head of both arrow patterns)
ArrowHead(s) ==
    LET q == OptKw(s, SkipSpaces(s, 1), "export")
        d == OrElse(Lit(s, q, "const"), OrElse(Lit(s, q, "let"), Lit(s, q, "var")))
    IN  SkipSpaces(s, Lit(s, SkipSpaces(s, WordAt(s, Spaces1(s, d))), "="))

\* =>
Arrow(s, p) == Lit(s, Lit(s, p, "="), ">")

\* JS_ARROW_PATTERN
\* ^(\s*)((?:export\s+)?(?:const|let|var)\s+\w+\s*=\s*(?:async\s+)?\([^)]*\)\s*=>)
JS_ARROW_PATTERN(s) ==
    Match(s, Arrow(s, SkipSpaces(s, Parens(s, OptKw(s, ArrowHead(s), "async")))))

\* JS_ARROW_SIMPLE_PATTERN
\* ^(\s*)((?:export\s+)?(?:const|let|var)\s+\w+\s*=\s*(?:async\s+)?\w+\s*=>)
\* The optional async is tried first; when the rest fails after it the
\* matcher backtracks and reads async as the parameter name.
JS_ARROW_SIMPLE_PATTERN(s) ==
    LET rest(p) == Arrow(s, SkipSpaces(s, WordAt(s, p)))
    IN  Match(s, The({OrElse(rest(Kw(s, h, "async")), rest(h)) : h \in {ArrowHead(s)}}))

\* JS_METHOD_PATTERN  ^(\s*)((?:async\s+)?(?:get\s+|set\s+)?\w+\s*\([^)]*\)\s*\{)
\* Each optional prefix is tried first and given up when the rest fails.
JS_METHOD_PATTERN(s) ==
    LET rest(p) == Lit(s, SkipSpaces(s, Parens(s, SkipSpaces(s, WordAt(s, p)))), "{")
        acc(p) == The({OrElse(rest(Kw(s, q, "get")),
                                       OrElse(rest(Kw(s, q, "set")), rest(q))) : q \in {p}})
        b == SpacesFrom(s, 1)
    IN  Match(s, OrElse(acc(Kw(s, b, "async")), acc(b)))

\* JS_INTERFACE_PATTERN  ^(\s*)((?:export\s+)?interface\s+\w+[^{]*)
JS_INTERFACE_PATTERN(s) ==
    Match(s, SkipNot(s, WordAt(s, Kw(s, OptKw(s, SkipSpaces(s, 1), "export"), "interface")), "{"))

\* JS_TYPE_PATTERN  ^(\s*)((?:export\s+)?type\s+\w+\s*=)
JS_TYPE_PATTERN(s) ==
    LET name == WordAt(s, Kw(s, OptKw(s, SkipSpaces(s, 1), "export"), "type"))
    IN  Match(s, Lit(s, SkipSpaces(s, name), "="))

CONTROL_FLOW_KEYWORDS ==
    {"if", "else", "for", "while", "switch", "case", "catch", "try", "finally",
     "return", "throw", "break", "continue", "do", "with"}

\* SH_FUNC_PATTERN  ^(\s*)(\w+\s*\(\)\s*\{)
SH_FUNC_PATTERN(s) ==
    LET name == WordAt(s, SkipSpaces(s, 1))
    IN  Match(s, Lit(s, SkipSpaces(s, Lit(s, Lit(s, SkipSpaces(s, name), "("), ")")), "{"))

\* SH_FUNC_KEYWORD_PATTERN  ^(\s*)(function\s+\w+)
SH_FUNC_KEYWORD_PATTERN(s) ==
    Match(s, WordAt(s, Kw(s, SkipSpaces(s, 1), "function")))

(***************************************************************************)
(* Inputs.  A line is an indent, a body and the line terminator.           *)
(***************************************************************************)
MaxPyLines == 3
MaxJsLines == 2
MaxShLines == 2
MaxFiles == 2
MaxScanLines == 2

Indents == {<<>>, <<"\t">>, <<" ", " ">>}

PyBodies ==
    { <<"@", "staticmethod">>,
      <<"@", "app", ".", "route", "(", "x", ")">>,
      <<"def", " ", "helper", "(", ")", ":">>,
      <<"async", " ", "def", " ", "f", "(", "x", ":", " ", "int", ")", ":">>,
      <<"class", " ", "A", "(", "B", ")", ":">>,
      <<"x", " ", "=", " ", "1">> }

JsBodies ==
    { <<"export", " ", "interface", " ", "Foo", " ", "{">>,
      <<"type", " ", "T", " ", "=", " ", "x", ";">>,
      <<"class", " ", "A", " ", "extends", " ", "B", " ", "{">>,
      <<"async", " ", "function", " ", "foo", "(", "a", ")", " ", "{">>,
      <<"export", " ", "const", " ", "add", " ", "=", " ", "(", "a", ",", " ", "b", ")",
        " ", "=", ">", " ", "{">>,
      <<"const", " ", "f", " ", "=", " ", "async", " ", "=", ">", " ", "x", ";">>,
      <<"foo", "(", "a", ")", " ", "{">>,
      <<"if", " ", "(", "x", ")", " ", "{">>,
      <<"If", "(", "x", ")", " ", "{">>,
      <<"x", " ", "=", " ", "1", ";">> }

ShBodies ==
    { <<"deploy", "(", ")", " ", "{">>,
      <<"function", " ", "x", " ", "{">>,
      <<"echo", " ", "hi">> }

LinesOf(bodies) == {ind \o b \o <<"\n">> : ind \in Indents, b \in bodies}

SeqsUpTo(S, n) == UNION {[1..m -> S] : m \in 0..n}

File(name, content, err) == [name |-> name, content |-> content, err |-> err]

\* the error texts open() raises with
Errors == {"EACCES", "ENOENT"}

\* the extension strings extract_signatures is called with
Extensions == {".py", ".js", ".jsx", ".ts", ".tsx", ".sh", ".md", ".PY", ".pyc", ""}

SampleContent ==
    << <<" ", " ", "@", "staticmethod", "\n">>,
       <<" ", " ", "def", " ", "helper", "(", ")", ":", "\n">>,
       <<"\t", "foo", "(", "a", ")", " ", "{", "\n">>,
       <<"function", " ", "x", " ", "{", "\n">> >>

ApiInputs ==
    {[extension |-> ".py", file |-> File(<<"m", ".py">>, c, "")] :
        c \in SeqsUpTo(LinesOf(PyBodies), MaxPyLines)}
    \cup {[extension |-> ".js", file |-> File(<<"m", ".js">>, c, "")] :
        c \in SeqsUpTo(LinesOf(JsBodies), MaxJsLines)}
    \cup {[extension |-> ".sh", file |-> File(<<"m", ".sh">>, c, "")] :
        c \in SeqsUpTo(LinesOf(ShBodies), MaxShLines)}
    \cup {[extension |-> e, file |-> File(<<"m", e>>, SampleContent, err)] :
        e \in Extensions, err \in Errors \cup {""}}

TreeFiles ==
    { File(<<"main", ".py">>, SampleContent, ""),
      File(<<"bad", ".py">>, <<>>, "EACCES"),
      File(<<"App", ".TSX">>, SampleContent, ""),
      File(<<"gone", ".js">>, <<>>, "ENOENT"),
      File(<<"run", ".sh">>, SampleContent, ""),
      File(<<"locked", ".Sh">>, <<>>, "EACCES"),
      File(<<"README", ".MD">>, SampleContent, ""),
      File(<<"Makefile">>, SampleContent, ""),
      File(<<"logo", ".png">>, <<>>, ""),
      File(<<"lib", ".min", ".js">>, SampleContent, "") }

(***************************************************************************)
(* The extractors.  An entry of `signatures` is the appended string (text) *)
(* together with the number of the line it was matched on (src, 1-based;   *)
(* 0 for the diagnostic of the except clause, which has no source line).   *)
(***************************************************************************)
Entry(text, src) == [text |-> text, src |-> src]

\* mutant: an entry whose text is already in the list is not appended
AppendSig_Unique(sigs, e) ==
    IF \E n \in DOMAIN sigs : sigs[n].text = e.text THEN sigs ELSE Append(sigs, e)

\* signatures.append(...)
AppendSig(sigs, e) == Append(sigs, e)

\* mutant: the diagnostic without its two leading spaces
ErrorText_NoIndent(marker, e) ==
    marker \o <<" ", "Error", " ", "reading", " ", "file", ":", " ", e>>

\* f"  # Error reading file: {e}" and f"  // Error reading file: {e}"
ErrorText(marker, e) ==
    <<" ", " ">> \o marker \o <<" ", "Error", " ", "reading", " ", "file", ":", " ", e>>
PyErrorText(e) == ErrorText(<<"#">>, e)
JsErrorText(e) == ErrorText(<<"/", "/">>, e)
ShErrorText(e) == ErrorText(<<"#">>, e)

\* mutant: the except clause lets the exception out
OnReadError_Reraise(sigs, text) == [pc |-> "raised", signatures |-> sigs]

\* except Exception as e: signatures.append(...); return signatures
OnReadError(sigs, text) ==
    [pc |-> "return", signatures |-> AppendSig(sigs, Entry(text, 0))]

\* the inner while of the decorator branch: the cursor after the run that
\* starts at line j0 (0-based) with the given indent
RECURSIVE PyRunEnd(_, _, _)
PyRunEnd(ls, j, indent) ==
    IF j < Len(ls) /\ PY_DECORATOR_PATTERN(ls[j + 1]).ok
                   /\ PY_DECORATOR_PATTERN(ls[j + 1]).g1 = indent
    THEN PyRunEnd(ls, j + 1, indent)
    ELSE j

\* mutant: the decorator branch without its i += 1
PyRunCursor_NoAdvance(ls, i0) == i0

\* i += 1 and the inner while: the cursor when the decorator branch
\* reaches its `continue`
PyRunCursor(ls, i0) ==
    PyRunEnd(ls, i0 + 1, PY_DECORATOR_PATTERN(ls[i0 + 1]).g1)

\* mutant: the annotations are appended whatever follows the run
PyRunEntries_KeepOrphans(ls, i0, j) ==
    LET indent == PY_DECORATOR_PATTERN(ls[i0 + 1]).g1
        decs == [n \in 1..(j - i0) |->
                    Entry(indent \o PY_DECORATOR_PATTERN(ls[i0 + n]).g2, i0 + n)]
        class_match == PY_CLASS_PATTERN(ls[j + 1])
        func_match == PY_FUNC_PATTERN(ls[j + 1])
    IN  IF j < Len(ls)
        THEN IF class_match.ok
             THEN decs \o <<Entry(class_match.g1 \o class_match.g2, j + 1)>>
             ELSE IF func_match.ok
             THEN decs \o <<Entry(func_match.g1 \o func_match.g2, j + 1)>>
             ELSE decs
        ELSE decs

\* mutant: the annotations are written at the indent of the header
PyRunEntries_HeaderIndent(ls, i0, j) ==
    LET decs(indent) == [n \in 1..(j - i0) |->
                    Entry(indent \o PY_DECORATOR_PATTERN(ls[i0 + n]).g2, i0 + n)]
        class_match == PY_CLASS_PATTERN(ls[j + 1])
        func_match == PY_FUNC_PATTERN(ls[j + 1])
    IN  IF j < Len(ls)
        THEN IF class_match.ok
             THEN decs(class_match.g1) \o <<Entry(class_match.g1 \o class_match.g2, j + 1)>>
             ELSE IF func_match.ok
             THEN decs(func_match.g1) \o <<Entry(func_match.g1 \o func_match.g2, j + 1)>>
             ELSE <<>>
        ELSE <<>>

\* the entries the decorator branch appends for the run i0..j-1 and the
\* line j that follows it
PyRunEntries(ls, i0, j) ==
    LET indent == PY_DECORATOR_PATTERN(ls[i0 + 1]).g1
        decs == [n \in 1..(j - i0) |->
                    Entry(indent \o PY_DECORATOR_PATTERN(ls[i0 + n]).g2, i0 + n)]
        class_match == PY_CLASS_PATTERN(ls[j + 1])
        func_match == PY_FUNC_PATTERN(ls[j + 1])
    IN  IF j < Len(ls)
        THEN IF class_match.ok
             THEN decs \o <<Entry(class_match.g1 \o class_match.g2, j + 1)>>
             ELSE IF func_match.ok
             THEN decs \o <<Entry(func_match.g1 \o func_match.g2, j + 1)>>
             ELSE <<>>
        ELSE <<>>

\* signatures.append for each element, in order
RECURSIVE AppendAll(_, _)
AppendAll(sigs, es) ==
    IF es = <<>> THEN sigs ELSE AppendAll(AppendSig(sigs, Head(es)), Tail(es))

\* the control-flow guard of extract_js_signatures
RECURSIVE SkipNonSpace(_, _)
SkipNonSpace(s, p) ==
    IF p <= Len(s) /\ ~IsSpace(s[p]) THEN SkipNonSpace(s, p + 1) ELSE p
RECURSIVE LowerJoin(_)
LowerJoin(s) == IF s = <<>> THEN "" ELSE Lower(Head(s)) \o LowerJoin(Tail(s))

\* stripped.split('(')[0].split(), then parts[0] if parts else ''
FirstWord(stripped) ==
    LET before == SubSeq(stripped, 1, SkipNot(stripped, 1, "(") - 1)
        b == SkipSpaces(before, 1)
    IN  SubSeq(before, b, SkipNonSpace(before, b) - 1)

\* mutant: the guard without .lower()
RECURSIVE Join(_)
Join(s) == IF s = <<>> THEN "" ELSE Head(s) \o Join(Tail(s))
JsGuardRejects_CaseSensitive(line) ==
    LET stripped == Strip(line)
    IN  stripped # <<>> /\ Join(FirstWord(stripped)) \in CONTROL_FLOW_KEYWORDS

JsGuardRejects(line) ==
    LET stripped == Strip(line)
    IN  stripped # <<>> /\ LowerJoin(FirstWord(stripped)) \in CONTROL_FLOW_KEYWORDS

\* the chain of pattern tests of extract_js_signatures: the text appended
\* for a line that passed the guard, or none
None == [ok |-> FALSE, text |-> <<>>]
Some(text) == [ok |-> TRUE, text |-> text]
Plain(m) == Some(m.g1 \o Strip(m.g2))
JsMethodText(m) == Some(m.g1 \o Strip(RStripChar(m.g2, "{")) \o <<"(", ")">>)
\* mutant: a bare method is accepted at any indent
JsMethodAccepted_AnyIndent(m) == m.ok

\* if method_match and len(method_match.group(1)) > 0
JsMethodAccepted(m) == m.ok /\ Len(m.g1) > 0

JsSignature(line) ==
    IF JS_INTERFACE_PATTERN(line).ok THEN Plain(JS_INTERFACE_PATTERN(line))
    ELSE IF JS_TYPE_PATTERN(line).ok THEN Plain(JS_TYPE_PATTERN(line))
    ELSE IF JS_CLASS_PATTERN(line).ok THEN Plain(JS_CLASS_PATTERN(line))
    ELSE IF JS_FUNC_PATTERN(line).ok THEN Plain(JS_FUNC_PATTERN(line))
    ELSE IF JS_ARROW_PATTERN(line).ok THEN Plain(JS_ARROW_PATTERN(line))
    ELSE IF JS_ARROW_SIMPLE_PATTERN(line).ok THEN Plain(JS_ARROW_SIMPLE_PATTERN(line))
    ELSE IF JsMethodAccepted(JS_METHOD_PATTERN(line)) THEN JsMethodText(JS_METHOD_PATTERN(line))
    ELSE None

\* the two pattern tests of extract_shell_signatures
ShSignature(line) ==
    IF SH_FUNC_PATTERN(line).ok
    THEN Some(SH_FUNC_PATTERN(line).g1 \o SH_FUNC_PATTERN(line).g2)
    ELSE IF SH_FUNC_KEYWORD_PATTERN(line).ok
    THEN Some(SH_FUNC_KEYWORD_PATTERN(line).g1 \o SH_FUNC_KEYWORD_PATTERN(line).g2)
    ELSE None

\* mutant: the dispatcher lowercases the extension it is given
Dispatcher_AnyCase(ext) ==
    IF Lower(ext) = ".py" THEN "py"
    ELSE IF Lower(ext) \in {".js", ".jsx", ".ts", ".tsx"} THEN "js"
    ELSE IF Lower(ext) = ".sh" THEN "sh"
    ELSE "none"

\* extract_signatures: the extractor an extension selects
Dispatcher(ext) ==
    IF ext = ".py" THEN "py"
    ELSE IF ext \in {".js", ".jsx", ".ts", ".tsx"} THEN "js"
    ELSE IF ext = ".sh" THEN "sh"
    ELSE "none"

(***************************************************************************)
(* generate_project_map's helpers.  A file name is its stem followed by    *)
(* its dotted parts: lib.min.js is <<"lib", ".min", ".js">>.               *)
(***************************************************************************)
IGNORE_EXTENSIONS ==
    {".png", ".svg", ".ico", ".jpg", ".jpeg", ".gif", ".webp",
     ".woff", ".woff2", ".ttf", ".eot", ".map", ".lock"}
IGNORE_FILES ==
    { <<"package-lock", ".json">>, <<"yarn", ".lock">>, <<"pnpm-lock", ".yaml">>,
      <<".DS_Store">>, <<"Thumbs", ".db">> }
CODE_EXTENSIONS == {".py", ".ts", ".tsx", ".js", ".jsx", ".sh"}

should_ignore_file(name) ==
    \/ name \in IGNORE_FILES
    \/ name[Len(name)] \in IGNORE_EXTENSIONS
    \/ \E n \in 1..(Len(name) - 1) : name[n] = ".min"

\* Path(filename).suffix.lower()
get_file_extension(name) == IF Len(name) > 1 THEN Lower(name[Len(name)]) ELSE ""

(***************************************************************************)
(* The state machine.                                                      *)
(***************************************************************************)
Fresh ==
    /\ lines = <<>> /\ i = 0 /\ signatures = <<>> /\ ran = {} /\ opened = {} /\ out = <<>>

\* extract_signatures(filepath, extension) called on one file
InitApi ==
    \E inp \in ApiInputs :
        /\ caller = "api" /\ files = <<inp.file>> /\ k = 1
        /\ extension = inp.extension /\ pc = "dispatch" /\ Fresh

\* generate_project_map over the files os.walk yields, in its order
InitMap ==
    \E t \in SeqsUpTo(TreeFiles, MaxFiles) :
        /\ caller = "map" /\ files = t /\ k = 1
        /\ extension = "" /\ pc = "walk" /\ Fresh

Init == InitApi \/ InitMap

\* for filename in filenames: if should_ignore_file(filename): continue
MapIgnore ==
    /\ pc = "walk" /\ k <= Len(files)
    /\ should_ignore_file(files[k].name)
    /\ k' = k + 1
    /\ UNCHANGED <<caller, files, extension, pc, lines, i, signatures, ran, opened, out>>

\* else: lines.append(f"{file_indent}- {filename}")
MapPlain ==
    /\ pc = "walk" /\ k <= Len(files)
    /\ ~should_ignore_file(files[k].name)
    /\ get_file_extension(files[k].name) \notin CODE_EXTENSIONS
    /\ out' = Append(out, [kind |-> "plain", file |-> k, text |-> <<>>])
    /\ k' = k + 1
    /\ UNCHANGED <<caller, files, extension, pc, lines, i, signatures, ran, opened>>

\* if extension in CODE_EXTENSIONS: the header line, then extract_signatures(...)
MapCode ==
    /\ pc = "walk" /\ k <= Len(files)
    /\ ~should_ignore_file(files[k].name)
    /\ get_file_extension(files[k].name) \in CODE_EXTENSIONS
    /\ out' = Append(out, [kind |-> "header", file |-> k, text |-> <<>>])
    /\ extension' = get_file_extension(files[k].name)
    /\ pc' = "dispatch"
    /\ UNCHANGED <<caller, files, k, lines, i, signatures, ran, opened>>

\* the loop over the files is exhausted
MapEnd ==
    /\ pc = "walk" /\ k > Len(files)
    /\ pc' = "done"
    /\ UNCHANGED <<caller, files, k, extension, lines, i, signatures, ran, opened, out>>

\* the body of extract_signatures
Dispatch ==
    /\ pc = "dispatch"
    /\ pc' = CASE Dispatcher(extension) = "py" -> "py_read"
               [] Dispatcher(extension) = "js" -> "js_read"
               [] Dispatcher(extension) = "sh" -> "sh_read"
               [] OTHER -> "return"
    /\ signatures' = <<>> /\ lines' = <<>> /\ i' = 0 /\ ran' = {}
    /\ UNCHANGED <<caller, files, k, extension, opened, out>>

\* signatures = []; try: open(...); lines = f.readlines(); i = 0 / except
Read(name, text) ==
    /\ pc = name \o "_read"
    /\ ran' = ran \cup {name}
    /\ opened' = opened \cup {k}
    /\ IF files[k].err = ""
       THEN /\ lines' = files[k].content /\ i' = 0
            /\ signatures' = <<>> /\ pc' = name \o "_loop"
       ELSE /\ signatures' = OnReadError(<<>>, text).signatures
            /\ pc' = OnReadError(<<>>, text).pc
            /\ UNCHANGED <<lines, i>>
    /\ UNCHANGED <<caller, files, k, extension, out>>

PyRead == Read("py", PyErrorText(files[k].err))
JsRead == Read("js", JsErrorText(files[k].err))
ShRead == Read("sh", ShErrorText(files[k].err))

\* while i < len(lines) is false: return signatures
LoopExit(name) ==
    /\ pc = name \o "_loop" /\ ~(i < Len(lines))
    /\ pc' = "return"
    /\ UNCHANGED <<caller, files, k, extension, lines, i, signatures, ran, opened, out>>

PyExit == LoopExit("py")
JsExit == LoopExit("js")
ShExit == LoopExit("sh")

\* if decorator_match: ... continue
PyDecorator ==
    /\ pc = "py_loop" /\ i < Len(lines)
    /\ PY_DECORATOR_PATTERN(lines[i + 1]).ok
    /\ signatures' = AppendAll(signatures, PyRunEntries(lines, i, PyRunCursor(lines, i)))
    /\ i' = PyRunCursor(lines, i)
    /\ UNCHANGED <<caller, files, k, extension, pc, lines, ran, opened, out>>

\* if class_match: append; i += 1; continue
PyClass ==
    /\ pc = "py_loop" /\ i < Len(lines)
    /\ ~PY_DECORATOR_PATTERN(lines[i + 1]).ok
    /\ PY_CLASS_PATTERN(lines[i + 1]).ok
    /\ signatures' = AppendSig(signatures,
          Entry(PY_CLASS_PATTERN(lines[i + 1]).g1 \o PY_CLASS_PATTERN(lines[i + 1]).g2, i + 1))
    /\ i' = i + 1
    /\ UNCHANGED <<caller, files, k, extension, pc, lines, ran, opened, out>>

\* if func_match: append; i += 1; continue
PyFunc ==
    /\ pc = "py_loop" /\ i < Len(lines)
    /\ ~PY_DECORATOR_PATTERN(lines[i + 1]).ok
    /\ ~PY_CLASS_PATTERN(lines[i + 1]).ok
    /\ PY_FUNC_PATTERN(lines[i + 1]).ok
    /\ signatures' = AppendSig(signatures,
          Entry(PY_FUNC_PATTERN(lines[i + 1]).g1 \o PY_FUNC_PATTERN(lines[i + 1]).g2, i + 1))
    /\ i' = i + 1
    /\ UNCHANGED <<caller, files, k, extension, pc, lines, ran, opened, out>>

\* no pattern matches: i += 1
PyOther ==
    /\ pc = "py_loop" /\ i < Len(lines)
    /\ ~PY_DECORATOR_PATTERN(lines[i + 1]).ok
    /\ ~PY_CLASS_PATTERN(lines[i + 1]).ok
    /\ ~PY_FUNC_PATTERN(lines[i + 1]).ok
    /\ i' = i + 1
    /\ UNCHANGED <<caller, files, k, extension, pc, lines, signatures, ran, opened, out>>

\* for line in lines: the guard rejects the line: continue
JsGuarded ==
    /\ pc = "js_loop" /\ i < Len(lines)
    /\ JsGuardRejects(lines[i + 1])
    /\ i' = i + 1
    /\ UNCHANGED <<caller, files, k, extension, pc, lines, signatures, ran, opened, out>>

\* for line in lines: the first pattern that matches appends; continue
JsLine ==
    /\ pc = "js_loop" /\ i < Len(lines)
    /\ ~JsGuardRejects(lines[i + 1])
    /\ signatures' = IF JsSignature(lines[i + 1]).ok
                     THEN AppendSig(signatures, Entry(JsSignature(lines[i + 1]).text, i + 1))
                     ELSE signatures
    /\ i' = i + 1
    /\ UNCHANGED <<caller, files, k, extension, pc, lines, ran, opened, out>>

\* for line in lines: the first pattern that matches appends; continue
ShLine ==
    /\ pc = "sh_loop" /\ i < Len(lines)
    /\ signatures' = IF ShSignature(lines[i + 1]).ok
                     THEN AppendSig(signatures, Entry(ShSignature(lines[i + 1]).text, i + 1))
                     ELSE signatures
    /\ i' = i + 1
    /\ UNCHANGED <<caller, files, k, extension, pc, lines, ran, opened, out>>

\* extract_signatures returns to the caller of the api
ApiReturn ==
    /\ pc = "return" /\ caller = "api"
    /\ pc' = "done"
    /\ UNCHANGED <<caller, files, k, extension, lines, i, signatures, ran, opened, out>>

\* if signatures: the fenced block, one line per signature / else: the
\* "no signatures found" line; then the next file
Rendered(sigs, f) ==
    IF sigs # <<>>
    THEN <<[kind |-> "fence", file |-> f, text |-> <<>>]>>
         \o [n \in 1..Len(sigs) |-> [kind |-> "sig", file |-> f, text |-> sigs[n].text]]
         \o <<[kind |-> "fence", file |-> f, text |-> <<>>]>>
    ELSE <<[kind |-> "nosig", file |-> f, text |-> <<>>]>>

MapRender ==
    /\ pc = "return" /\ caller = "map"
    /\ out' = out \o Rendered(signatures, k)
    /\ k' = k + 1
    /\ pc' = "walk"
    /\ lines' = <<>> /\ i' = 0 /\ signatures' = <<>> /\ ran' = {}
    /\ UNCHANGED <<caller, files, extension, opened>>

Next ==
    \/ MapIgnore \/ MapPlain \/ MapCode \/ MapEnd \/ MapRender
    \/ Dispatch \/ ApiReturn
    \/ PyRead \/ PyDecorator \/ PyClass \/ PyFunc \/ PyOther \/ PyExit
    \/ JsRead \/ JsGuarded \/ JsLine \/ JsExit
    \/ ShRead \/ ShLine \/ ShExit

Spec == Init /\ [][Next]_vars

\* the Python scan alone, on files of at most MaxScanLines lines
PyScanInit ==
    \E c \in SeqsUpTo(LinesOf(PyBodies), MaxScanLines), err \in {"", "EACCES"} :
        /\ caller = "api" /\ files = <<File(<<"m", ".py">>, c, err)>> /\ k = 1
        /\ extension = ".py" /\ pc = "dispatch" /\ Fresh

PyScanNext ==
    \/ Dispatch \/ PyRead \/ PyDecorator \/ PyClass \/ PyFunc \/ PyOther \/ PyExit
    \/ ApiReturn

\* the interpreter runs every enabled step: the script is single-threaded
\* and nothing suspends it
PyScanSpec == PyScanInit /\ [][PyScanNext]_vars /\ WF_vars(PyScanNext)

(***************************************************************************)
(* Properties.                                                             *)
(***************************************************************************)
IsAnnotation(line) == PY_DECORATOR_PATTERN(line).ok
IsPyHeader(line) == PY_CLASS_PATTERN(line).ok \/ PY_FUNC_PATTERN(line).ok

\* the number of consecutive annotation lines with the given indent, from
\* line a (1-based) on
RECURSIVE AnnotationRun(_, _, _)
AnnotationRun(ls, a, indent) ==
    IF a <= Len(ls) /\ IsAnnotation(ls[a]) /\ LeadingWs(ls[a]) = indent
    THEN 1 + AnnotationRun(ls, a + 1, indent)
    ELSE 0

\* line a starts an annotation run: the scanner reaches it from a line that
\* is not an annotation at the same indent
StartsRun(ls, a) ==
    /\ IsAnnotation(ls[a])
    /\ a = 1 \/ ~(IsAnnotation(ls[a - 1]) /\ LeadingWs(ls[a - 1]) = LeadingWs(ls[a]))

RunLen(ls, a) == AnnotationRun(ls, a, LeadingWs(ls[a]))

\* the positions of the entries matched on the lines a..b
EntriesOf(sigs, a, b) == {n \in DOMAIN sigs : sigs[n].src \in a..b}

PyDone == pc = "return" /\ ran = {"py"} /\ files[k].err = ""
JsDone == pc = "return" /\ ran = {"js"} /\ files[k].err = ""
ShDone == pc = "return" /\ ran = {"sh"} /\ files[k].err = ""

\* C1: in the Python extractor a run of N >= 1 annotation lines at indent I
\* immediately followed by a class or function header at indent I
\* contributes exactly N+1 entries, the N annotations in source order and
\* then one entry for the header: the header is not processed again.
C1_RunAndHeaderGiveNPlus1 ==
    PyDone =>
        \A a \in 1..Len(lines) :
            (/\ StartsRun(lines, a)
             /\ a + RunLen(lines, a) <= Len(lines)
             /\ IsPyHeader(lines[a + RunLen(lines, a)])
             /\ LeadingWs(lines[a + RunLen(lines, a)]) = LeadingWs(lines[a]))
            => LET N == RunLen(lines, a)
                   es == EntriesOf(signatures, a, a + N)
               IN  /\ Cardinality(es) = N + 1
                   /\ \A n \in 0..N : \E p \in es :
                         /\ signatures[p].src = a + n
                         /\ Cardinality({q \in es : q < p}) = n

\* C2: in the Python extractor, when the line after an annotation run is
\* neither a class nor a function header, or the file ends after the run, no
\* entry is emitted for the run and the scan resumes at that line itself,
\* which is classified as any line is and never skipped.
C2_OrphanStep ==
    (/\ pc = "py_loop" /\ i < Len(lines) /\ IsAnnotation(lines[i + 1])
     /\ \/ i + RunLen(lines, i + 1) = Len(lines)
        \/ ~IsPyHeader(lines[i + 1 + RunLen(lines, i + 1)]))
    => /\ signatures' = signatures
       /\ i' = i + RunLen(lines, i + 1)
       /\ pc' = "py_loop"

C2_OrphanRunDropped ==
    /\ [][C2_OrphanStep]_vars
    /\ [](PyDone =>
            \A a \in 1..Len(lines) :
                (/\ StartsRun(lines, a)
                 /\ \/ a + RunLen(lines, a) > Len(lines)
                    \/ ~IsPyHeader(lines[a + RunLen(lines, a)]))
                => /\ EntriesOf(signatures, a, a + RunLen(lines, a) - 1) = {}
                   /\ (/\ a + RunLen(lines, a) < Len(lines)
                       /\ IsAnnotation(lines[a + RunLen(lines, a)])
                       /\ IsPyHeader(lines[a + RunLen(lines, a) + 1]))
                      => EntriesOf(signatures, a + RunLen(lines, a),
                                   a + RunLen(lines, a)) # {})

\* an orphaned annotation is followed by an annotation at another indent
\* and its header: the second run is emitted, the first is not
C2_Witness ==
    /\ PyDone /\ Len(lines) = 3
    /\ IsAnnotation(lines[1]) /\ IsAnnotation(lines[2])
    /\ LeadingWs(lines[1]) # LeadingWs(lines[2])
    /\ IsPyHeader(lines[3])
    /\ EntriesOf(signatures, 1, 1) = {}
    /\ EntriesOf(signatures, 2, 2) # {}

\* the first token of a line: the text of the stripped line before its
\* first "(" and before its first whitespace, lowercased
RECURSIVE TokenEnd(_, _)
TokenEnd(s, p) ==
    IF p <= Len(s) /\ s[p] # "(" /\ ~IsSpace(s[p]) THEN TokenEnd(s, p + 1) ELSE p
FirstToken(line) ==
    LowerJoin(SubSeq(Strip(line), 1, TokenEnd(Strip(line), 1) - 1))
ReservedWords ==
    {"if", "else", "for", "while", "switch", "case", "catch", "try", "finally",
     "return", "throw", "break", "continue", "do", "with"}
IsControlLine(line) == FirstToken(line) \in ReservedWords

\* C3: in the JS/TS extractor a line whose first token, lowercased, is a
\* reserved control-flow word contributes no entry, even when it
\* satisfies a declaration pattern such as the bare-method one.
C3_ControlLinesNeverEmitted ==
    ran = {"js"} =>
        \A n \in DOMAIN signatures :
            signatures[n].src # 0 => ~IsControlLine(lines[signatures[n].src])

\* an indented "If(x) {" satisfies the bare-method pattern and is not emitted
C3_Witness ==
    /\ JsDone
    /\ \E a \in 1..Len(lines) :
          /\ IsControlLine(lines[a])
          /\ FirstToken(lines[a]) # Head(Strip(lines[a]))
          /\ JS_METHOD_PATTERN(lines[a]).ok
          /\ Len(JS_METHOD_PATTERN(lines[a]).g1) > 0
          /\ EntriesOf(signatures, a, a) = {}

\* C4: the indent of every entry matched on a source line, annotation
\* entries included, is exactly the leading whitespace of that line.
C4_IndentVerbatim ==
    \A n \in DOMAIN signatures :
        signatures[n].src # 0 =>
            LeadingWs(signatures[n].text) = LeadingWs(lines[signatures[n].src])

\* an annotation at one indent, its header at another: a tab and two spaces
C4_Witness ==
    /\ PyDone /\ Len(signatures) >= 2
    /\ IsAnnotation(lines[signatures[1].src])
    /\ LeadingWs(signatures[1].text) = <<"\t">>
    /\ LeadingWs(signatures[2].text) = <<" ", " ">>

\* a file whose open() fails
Unreadable(f) == files[f].err # ""
IsCode(f) ==
    /\ ~should_ignore_file(files[f].name)
    /\ get_file_extension(files[f].name) \in CODE_EXTENSIONS
Mentions(text, w) == \E n \in DOMAIN text : text[n] = w

\* C5: when reading the file fails the extraction call returns normally
\* with exactly one entry, the diagnostic of the failure, and the traversal
\* goes on to process every remaining file.
C5_ReadFailureContained ==
    /\ pc # "raised"
    /\ (pc = "return" /\ ran # {} /\ Unreadable(k)) =>
          /\ Len(signatures) = 1
          /\ signatures[1].src = 0
          /\ Mentions(signatures[1].text, files[k].err)
    /\ (caller = "map" /\ pc = "done") =>
          \A f \in 1..Len(files) :
              /\ ~should_ignore_file(files[f].name) => \E n \in DOMAIN out : out[n].file = f
              /\ IsCode(f) => f \in opened
              /\ (IsCode(f) /\ Unreadable(f)) =>
                    Cardinality({n \in DOMAIN out : out[n].file = f /\ out[n].kind = "sig"}) = 1

\* the first file cannot be read, the second one is extracted
C5_Witness ==
    /\ caller = "map" /\ pc = "done" /\ Len(files) = 2
    /\ IsCode(1) /\ Unreadable(1)
    /\ IsCode(2) /\ ~Unreadable(2)
    /\ \E n \in DOMAIN out : out[n].file = 2 /\ out[n].kind = "sig"

\* C6 as stated: the diagnostic entry has the shape of an ordinary entry
\* and its indent is the empty string.
C6_DiagnosticIndentEmpty ==
    \A n \in DOMAIN signatures :
        signatures[n].src = 0 => LeadingWs(signatures[n].text) = <<>>

\* C6 amended: the diagnostic entry has the shape of an ordinary entry (one
\* text in the same list) and begins with exactly two spaces, followed by
\* the comment marker of the language, in all three extractors.
C6_DiagnosticIndentTwoSpaces ==
    \A n \in DOMAIN signatures :
        signatures[n].src = 0 =>
            /\ Len(signatures) = 1
            /\ LeadingWs(signatures[n].text) = <<" ", " ">>
            /\ signatures[n].text[3] = IF ran = {"js"} THEN "/" ELSE "#"
            /\ Mentions(signatures[n].text, files[k].err)

C6_Witness ==
    /\ pc = "return" /\ ran = {"sh"} /\ Unreadable(k)
    /\ Len(signatures) = 1 /\ signatures[1].src = 0

\* the declaration text the running extractor recognises on a line, if any
Declaration(line) ==
    IF ran = {"py"}
    THEN IF PY_CLASS_PATTERN(line).ok
         THEN Some(PY_CLASS_PATTERN(line).g1 \o PY_CLASS_PATTERN(line).g2)
         ELSE IF PY_FUNC_PATTERN(line).ok
         THEN Some(PY_FUNC_PATTERN(line).g1 \o PY_FUNC_PATTERN(line).g2)
         ELSE None
    ELSE IF ran = {"js"}
    THEN IF IsControlLine(line) THEN None ELSE JsSignature(line)
    ELSE IF ran = {"sh"} THEN ShSignature(line)
    ELSE None

\* C7: the result list keeps the source order and is not deduplicated: an
\* entry that precedes another was not matched on a later line, and two
\* distinct lines with identical declaration text each have their own entry.
C7_OrderKeptNoDedup ==
    /\ \A p, q \in DOMAIN signatures :
          p < q => signatures[p].src <= signatures[q].src
    /\ \A a, b \in 1..i :
          (/\ a < b /\ b <= Len(lines)
           /\ Declaration(lines[a]).ok
           /\ Declaration(lines[b]) = Declaration(lines[a]))
          => \E p, q \in DOMAIN signatures :
                /\ p < q
                /\ signatures[p].src = a /\ signatures[q].src = b
                /\ signatures[p].text = Declaration(lines[a]).text
                /\ signatures[q].text = signatures[p].text

\* the same declaration on two lines, both entries kept
C7_Witness ==
    /\ pc = "return" /\ Len(lines) = 2 /\ lines[1] = lines[2]
    /\ Len(signatures) = 2
    /\ signatures[1].text = signatures[2].text
    /\ signatures[1].src = 1 /\ signatures[2].src = 2

\* C8: extract_signatures is a total function of the extension: ".py"
\* selects the Python extractor, ".js", ".jsx", ".ts" and ".tsx" the JS/TS
\* extractor, ".sh" the shell extractor, and any other string no extractor:
\* the result is the empty list and the file is not read.  No extension
\* selects more than one extractor.
C8_DispatchTotal ==
    /\ pc = "dispatch" => ENABLED Dispatch
    /\ Cardinality(ran) <= 1
    /\ pc \in {"return", "done"} /\ ~(caller = "map" /\ pc = "done") =>
          /\ extension = ".py" => ran = {"py"}
          /\ extension \in {".js", ".jsx", ".ts", ".tsx"} => ran = {"js"}
          /\ extension = ".sh" => ran = {"sh"}
          /\ extension \notin {".py", ".js", ".jsx", ".ts", ".tsx", ".sh"} =>
                /\ ran = {}
                /\ signatures = <<>>
                /\ k \notin opened

\* an extension in upper case selects no extractor
C8_Witness ==
    /\ caller = "api" /\ pc = "done"
    /\ extension = ".PY" /\ Lower(extension) = ".py"
    /\ ~Unreadable(1) /\ signatures = <<>> /\ opened = {}

\* the patterns in the order interface, type alias, class, function,
\* parenthesized arrow, bare-parameter arrow, bare method (with an indent of
\* length > 0): the text of the first that matches, if any
InOrder(line) ==
    << Plain(JS_INTERFACE_PATTERN(line)), Plain(JS_TYPE_PATTERN(line)),
       Plain(JS_CLASS_PATTERN(line)), Plain(JS_FUNC_PATTERN(line)),
       Plain(JS_ARROW_PATTERN(line)), Plain(JS_ARROW_SIMPLE_PATTERN(line)),
       JsMethodText(JS_METHOD_PATTERN(line)) >>
Matches(line) ==
    << JS_INTERFACE_PATTERN(line).ok, JS_TYPE_PATTERN(line).ok,
       JS_CLASS_PATTERN(line).ok, JS_FUNC_PATTERN(line).ok,
       JS_ARROW_PATTERN(line).ok, JS_ARROW_SIMPLE_PATTERN(line).ok,
       JS_METHOD_PATTERN(line).ok /\ Len(LeadingWs(line)) > 0 >>
FirstMatch(line) ==
    IF \E n \in 1..7 : Matches(line)[n]
    THEN InOrder(line)[CHOOSE n \in 1..7 :
            Matches(line)[n] /\ \A m \in 1..(n - 1) : ~Matches(line)[m]]
    ELSE None

\* the entries of line a are what the first matching pattern gives
OneEntryOfFirstMatch(a) ==
    IF FirstMatch(lines[a]).ok
    THEN /\ Cardinality(EntriesOf(signatures, a, a)) = 1
         /\ \A n \in EntriesOf(signatures, a, a) :
               signatures[n].text = FirstMatch(lines[a]).text
    ELSE EntriesOf(signatures, a, a) = {}

\* C9 as stated: the patterns are tried in the fixed order and the first
\* match gives the line's only entry; a line that matches only the
\* bare-method pattern gives an entry when its indent has length > 0 and
\* none when its indent is empty.
C9_FirstMatchEveryLine ==
    ran = {"js"} => \A a \in 1..i : a <= Len(lines) => OneEntryOfFirstMatch(a)

\* C9 amended: the same, for the lines the control-flow guard does not
\* reject (a rejected line gives no entry whatever it matches).
C9_FirstMatchAfterGuard ==
    ran = {"js"} =>
        \A a \in 1..i : a <= Len(lines) =>
            IF IsControlLine(lines[a])
            THEN EntriesOf(signatures, a, a) = {}
            ELSE OneEntryOfFirstMatch(a)

\* the same bare method at an indent (kept) and at top level (dropped)
C9_Witness ==
    /\ JsDone /\ Len(lines) = 2
    /\ JS_METHOD_PATTERN(lines[1]).ok /\ JS_METHOD_PATTERN(lines[2]).ok
    /\ ~IsControlLine(lines[1]) /\ ~IsControlLine(lines[2])
    /\ Len(LeadingWs(lines[1])) > 0 /\ LeadingWs(lines[2]) = <<>>
    /\ Len(signatures) = 1 /\ signatures[1].src = 1

\* C10: the Python scan terminates: every iteration of the outer loop, the
\* decorator branch included, strictly increases the cursor i, and the loop
\* ends with i equal to the number of lines.
C10_Iteration ==
    (pc = "py_loop" /\ pc' = "py_loop") => (i' > i /\ i' <= Len(lines))

C10_PyScanTerminates ==
    /\ [][C10_Iteration]_vars
    /\ [](PyDone => i = Len(lines))
    /\ (pc = "py_loop") ~> (pc = "return")

\* a run that reaches the end of the file
C10_Witness ==
    /\ PyDone /\ Len(lines) = 2 /\ i = 2
    /\ IsAnnotation(lines[1]) /\ IsAnnotation(lines[2])
    /\ LeadingWs(lines[1]) = LeadingWs(lines[2])
    /\ signatures = <<>>

====
